---- MODULE Spec2Model ----
(***************************************************************************)
(* A model of NeDBStore, the Connect/Express session store backed by an    *)
(* NeDB datastore: its constructor's option normalisation, and the store   *)
(* operations set, touch, get, all, length, destroy and clear running      *)
(* against the datastore's serial command queue.                           *)
(***************************************************************************)
EXTENDS Integers, Sequences, FiniteSets, TLC

\* ------------------------------------------------------------ constants

ONE_DAY == 86400000

TWO_WEEKS == 14 * ONE_DAY

\* the lower end of the auto-compaction interval
MIN_COMPACT == 5000

\* ------------------------------------------------------------- bounds

\* the clock runs over 0..MaxClock
MaxClock == 2

\* store operations the caller may have pending in the datastore's queue
MaxQueue == 2

\* store operations the caller issues in one behaviour
MaxCalls == 3

\* the instants a cookie's expires is drawn from
ExpiryDates == 1..(MaxClock - 1)

Ids == {"a", "b"}

Data == {"x", "y"}

\* ------------------------------------------------------------- values

\* A JavaScript Date, an Invalid Date, or no value at all (undefined/null).
DateAt(t) == [t |-> t, kind |-> "date"]

InvalidDate == [t |-> 0, kind |-> "invalid"]

NoDate == [t |-> 0, kind |-> "absent"]

\* What `new Date(x)` makes of a cookie's `expires`: the same instant for a
\* date, an Invalid Date for a value that is no date.
NewDate(x) == IF x.kind = "date" THEN DateAt(x.t) ELSE InvalidDate

\* `x` in a boolean context: a Date (valid or not) and a non-empty string are
\* truthy, undefined/null is falsy.
Truthy(x) == x.kind # "absent"

\* `new Date(now) < d`: false whenever d is not a valid date
Before(now, d) == d.kind = "date" /\ now < d.t

ExpiresValues == {NoDate, InvalidDate} \cup {DateAt(t) : t \in ExpiryDates}

NoCookie == [toJSON |-> FALSE, present |-> FALSE, expires |-> NoDate]

Cookies ==
  {NoCookie} \cup
  [toJSON : BOOLEAN, present : {TRUE}, expires : ExpiresValues]

\* no session payload at all (null/undefined)
NoSession == [data |-> "null", cookie |-> NoCookie]

Sessions == [data : Data, cookie : Cookies]

\* The payloads the caller writes.  Session "a" is written with a Cookie
\* object (one with toJSON) that expires at a date, with a plain cookie whose
\* expires is no date, and with a plain cookie without expires; session "b"
\* is written without any cookie.
Payloads(id) ==
  IF id = "a"
  THEN {s \in Sessions :
          /\ s.data = "x"
          /\ s.cookie.present
          /\ s.cookie.toJSON = (s.cookie.expires.kind = "date")}
  ELSE {[data |-> "y", cookie |-> NoCookie]}

\* errors handed to callbacks
NoErr == [id |-> "-", name |-> "null"]

BackingErr == [id |-> "-", name |-> "backing store error"]

NoSessionErr(id) == [id |-> id, name |-> "No Session exists with ID"]

\* the second argument of a callback
NoVal == [kind |-> "absent", sessions |-> <<>>, n |-> 0]

NullVal == [kind |-> "null", sessions |-> <<>>, n |-> 0]

SessionVal(s) == [kind |-> "session", sessions |-> <<s>>, n |-> 0]

ListVal(l) == [kind |-> "list", sessions |-> l, n |-> 0]

NumVal(n) == [kind |-> "number", sessions |-> <<>>, n |-> n]

\* ------------------------------------------------------------- numbers

\* A JavaScript value handed in as a numeric option.  cls is
\*   "undefined"  the option is not supplied
\*   "null"       the option is null
\*   "finite"     a number v of ordinary size: n is v truncated toward zero,
\*                frac says that v has a fractional part (v # n; 0 < v < 1
\*                when n = 0)
\*   "tiny"       0 < v < 1e-6, which prints as "<n>e-7"
\*   "huge"       v >= 1e21, which prints as "<n>e+21"
\*   "nan", "posinf", "neginf"
\*   "string"     the decimal numeral of n, a string and no number
JsValue(cls, n, frac) == [n |-> n, cls |-> cls, frac |-> frac]

Undefined == JsValue("undefined", 0, FALSE)

Null == JsValue("null", 0, FALSE)

Num(n) == JsValue("finite", n, FALSE)

\* a number other than NaN
IsNumeric(v) == v.cls \in {"finite", "tiny", "huge", "posinf", "neginf"}

\* an integer or NaN, the results of parseInt
NaN == [n |-> 0, nan |-> TRUE]

Parsed(n) == [n |-> n, nan |-> FALSE]

\* parseInt(v, 10): v is printed and the leading decimal digits are read
ParseInt(v) ==
  IF v.cls \in {"finite", "tiny", "huge", "string"} THEN Parsed(v.n) ELSE NaN

\* Variant: the interval without its lower limit
ClampUpperOnly(aci) == IF ~aci.nan /\ aci.n < ONE_DAY THEN aci.n ELSE ONE_DAY

\* aci < 5000 ? 5000 : ( aci < ONE_DAY ? aci : ONE_DAY ), every comparison
\* with NaN being false
ClampInterval(aci) ==
  IF ~aci.nan /\ aci.n < MIN_COMPACT THEN MIN_COMPACT
  ELSE IF ~aci.nan /\ aci.n < ONE_DAY THEN aci.n
  ELSE ONE_DAY

\* typeof v === 'number' && Number.isFinite(v) && v > 0
PositiveFinite(v) ==
  \/ v.cls \in {"tiny", "huge"}
  \/ v.cls = "finite" /\ (v.n > 0 \/ (v.n = 0 /\ v.frac))

NoCb == [id |-> "-", op |-> "none", err |-> NoErr, val |-> NoVal]

Cb(op, id, err, val) == [id |-> id, op |-> op, err |-> err, val |-> val]

\* ------------------------------------------------------------ variables

VARIABLES
  pc,         \* "new" before the constructor ran, "ready" after it
  options,    \* the options object handed to the constructor
  defaultExpiry, \* this._defaultExpiry
  compaction, \* the call of persistence.setAutocompactionInterval, if any
  loadState,  \* the datastore's initial load: "loading", "loaded", "failed"
  clock,      \* Date.now()
  docs,       \* the datastore's documents, in the order find returns them
  queue,      \* the datastore's buffered commands, oldest first
  cb,         \* the callback the store invoked in the last step
  emits,      \* the events the store emitted in the last step
  calls,      \* the number of operations the caller issued
  given,      \* the options as the caller wrote them (never changes)
  history,    \* what has happened to each session (kept for the properties)
  listening,  \* an 'error' listener is registered on the store
  thrown      \* the exception the last step raised: "none", "TypeError" out
              \* of a call of the store, "uncaught" out of a datastore callback

vars ==
  <<pc, options, defaultExpiry, compaction, loadState, clock, docs, queue, cb,
    emits, calls, given, history, listening, thrown>>

\* ---------------------------------------------------------- constructor

Option(inMemoryOnly, filename, defaultExp, autoCompactInterval) ==
  [defaultExpiry |-> defaultExp, inMemoryOnly |-> inMemoryOnly,
   filename |-> filename, autoCompactInterval |-> autoCompactInterval]

NotConstructed == [scheduled |-> FALSE, interval |-> 0]

\* options.inMemoryOnly = !!options.inMemoryOnly and what follows from it
NormalizedInMemory(o) == o.inMemoryOnly

NormalizedFilename(o) ==
  IF ~NormalizedInMemory(o)
  THEN (IF o.filename # "" THEN o.filename ELSE "data/sessions.db")
  ELSE ""

\* the in-memory branch sets options.autoCompactInterval = null
NormalizedInterval(o) ==
  IF NormalizedInMemory(o) THEN Null ELSE o.autoCompactInterval

\* Variant: no defaultExpiry option, every store expiring after two weeks
DefaultExpiryFixed(o) == TWO_WEEKS

DefaultExpiryOf(o) ==
  IF PositiveFinite(o.defaultExpiry)
  THEN ParseInt(o.defaultExpiry).n
  ELSE TWO_WEEKS

\* aci: null, or the clamped interval
AciIsNull(o) == NormalizedInterval(o).cls = "null"

Aci(o) == ClampInterval(ParseInt(NormalizedInterval(o)))

\* Variant: compaction scheduled for every file-backed datastore, null or not
CompactionOfAnyInterval(o) ==
  IF NormalizedFilename(o) # ""
  THEN [scheduled |-> TRUE, interval |-> IF AciIsNull(o) THEN 0 ELSE Aci(o)]
  ELSE [scheduled |-> FALSE, interval |-> 0]

\* if ( options.filename && aci !== null ) setAutocompactionInterval( aci )
CompactionOf(o) ==
  IF NormalizedFilename(o) # "" /\ ~AciIsNull(o)
  THEN [scheduled |-> TRUE, interval |-> Aci(o)]
  ELSE [scheduled |-> FALSE, interval |-> 0]

\* the options object after the constructor: normalised, and with
\* defaultExpiry and autoCompactInterval deleted
OptionsAfter(o) ==
  Option(NormalizedInMemory(o), NormalizedFilename(o), Undefined, Undefined)

\* new NeDBStore( options )
NewStore ==
  /\ pc = "new"
  /\ pc' = "ready"
  /\ options' = OptionsAfter(options)
  /\ defaultExpiry' = DefaultExpiryOf(options)
  /\ compaction' = CompactionOf(options)
  /\ UNCHANGED <<loadState, clock, docs, queue, cb, emits, calls, given,
                 history, listening, thrown>>

\* ------------------------------------------------------------ datastore

Doc(id, session, expiresAt) ==
  [session |-> session, expiresAt |-> expiresAt, _id |-> id]

\* the positions of the documents matching { _id: id }
Matching(ds, id) == {i \in 1..Len(ds) : ds[i]._id = id}

\* the first document matching { _id: id }; only used when there is one
FirstMatch(ds, id) == CHOOSE i \in Matching(ds, id) : \A j \in Matching(ds, id) : i <= j

\* Variant: datastore.insert of a new document, whatever is stored
UpsertDocInsert(ds, id, session, expiresAt) ==
  Append(ds, Doc(id, session, expiresAt))

\* datastore.update( {_id: id}, {$set: {session, expiresAt}}, {multi: false, upsert: true} )
UpsertDoc(ds, id, session, expiresAt) ==
  IF Matching(ds, id) = {}
  THEN Append(ds, Doc(id, session, expiresAt))
  ELSE [ds EXCEPT ![FirstMatch(ds, id)] = Doc(id, session, expiresAt)]

\* Variant: touch's update with upsert: true
TouchDocUpsert(ds, id, expiresAt) ==
  IF Matching(ds, id) = {}
  THEN Append(ds, Doc(id, NoSession, expiresAt))
  ELSE IF ~Truthy(expiresAt) THEN ds
  ELSE [ds EXCEPT ![FirstMatch(ds, id)].expiresAt = expiresAt]

\* Variant: touchSetOp holding updatedAt only
TouchDocNothing(ds, id, expiresAt) == ds

\* Variant: expiresAt is part of touchSetOp whatever the cookie carries
TouchDocAlways(ds, id, expiresAt) ==
  IF Matching(ds, id) = {}
  THEN ds
  ELSE [ds EXCEPT ![FirstMatch(ds, id)].expiresAt = expiresAt]

\* datastore.update( {_id: id}, {$set: touchSetOp}, {multi: false, upsert: false} ):
\* expiresAt is part of touchSetOp only when the cookie carries an expiry
TouchDoc(ds, id, expiresAt) ==
  IF Matching(ds, id) = {} \/ ~Truthy(expiresAt)
  THEN ds
  ELSE [ds EXCEPT ![FirstMatch(ds, id)].expiresAt = expiresAt]

RECURSIVE RemoveAt(_, _)
RemoveAt(ds, i) ==
  IF ds = <<>> THEN <<>>
  ELSE IF i = 1 THEN Tail(ds)
  ELSE <<Head(ds)>> \o RemoveAt(Tail(ds), i - 1)

\* Variant: a remove whose filter matches no document
RemoveDocNoMatch(ds, id) == ds

\* Variant: a remove whose filter matches every document: { multi: false }
\* removes the first one
RemoveDocFirst(ds, id) == IF ds = <<>> THEN ds ELSE Tail(ds)

\* datastore.remove( {_id: id}, {multi: false} )
RemoveDoc(ds, id) ==
  IF Matching(ds, id) = {} THEN ds ELSE RemoveAt(ds, FirstMatch(ds, id))

\* datastore.findOne( {_id: id} ): the sequence of at most one document
FindOne(ds, id) ==
  IF Matching(ds, id) = {} THEN <<>> ELSE <<ds[FirstMatch(ds, id)]>>

\* ------------------------------------------------------------- liveness

\* Variant: new Date() <= existingDoc.expiresAt
IsLiveInclusive(doc, now) ==
  \/ doc.session # NoSession /\ ~Truthy(doc.expiresAt)
  \/ doc.expiresAt.kind = "date" /\ now <= doc.expiresAt.t

\* existingDoc.session && !existingDoc.expiresAt || new Date() < existingDoc.expiresAt
IsLive(doc, now) ==
  \/ doc.session # NoSession /\ ~Truthy(doc.expiresAt)
  \/ Before(now, doc.expiresAt)

RECURSIVE Filter(_, _, _)
\* existingDocs.filter( live ) when keep, the documents filtered out otherwise
Filter(ds, now, keep) ==
  IF ds = <<>> THEN <<>>
  ELSE (IF IsLive(Head(ds), now) = keep THEN <<Head(ds)>> ELSE <<>>)
       \o Filter(Tail(ds), now, keep)

\* .map( existingDoc => existingDoc.session )
SessionsOf(ds) == [i \in 1..Len(ds) |-> ds[i].session]

\* what all hands to its callback: the sessions of the live documents
AllResult(ds, now) == SessionsOf(Filter(ds, now, TRUE))

\* Variant: datastore.count( {} ), the number of documents
LengthResultRaw(ds, now) == Len(ds)

\* what length hands to its callback: ( sessions || [] ).length
LengthResult(ds, now) == Len(AllResult(ds, now))

\* Variant: datastore.remove( {}, {multi: false} )
ClearFirst(ds) == IF ds = <<>> THEN ds ELSE Tail(ds)

\* datastore.remove( {}, {multi: true} )
ClearDocs(ds) == <<>>

\* ------------------------------------------------------------- commands

\* A command buffered by the datastore, with what the store's callback for it
\* needs: the operation it belongs to (origin).  arg is the session as the
\* caller passed it, kept for the properties.
Cmd(kind, origin, id, session, expiresAt, arg) ==
  [kind |-> kind, id |-> id, session |-> session, expiresAt |-> expiresAt,
   origin |-> origin, arg |-> arg]

DestroyCmd(origin, id) == Cmd("remove", origin, id, NoSession, NoDate, NoSession)

\* Variant: a filter that destroys nothing
CleanupNone(stale) == <<>>

\* the destroys the filter of all issues, one per stale document, in order
CleanupCmds(stale) == [i \in 1..Len(stale) |-> DestroyCmd("all", stale[i]._id)]

\* Variant: the filter run whether or not find reported an error
FindCleanupAlways(ds, now, ok) == CleanupCmds(Filter(ds, now, FALSE))

\* the destroys all issues: none when find reported an error, all returning
\* before it filters
FindCleanup(ds, now, ok) ==
  IF ok THEN CleanupCmds(Filter(ds, now, FALSE)) ELSE <<>>

\* ------------------------------------------------------------- history

\* Per session: phase is "set" once a set of it was applied, "destroyed" once
\* a destroy issued by the caller was applied after that, "purged" once a
\* cleanup destroy of get or all was applied after the set, "none" otherwise;
\* arg is the session the applied set was called with; touched says that a
\* touch was applied since.  cleared: a clear was applied and no set since.
\* sweeping: the find of all ran at sweptAt and no set or touch was applied
\* and no cleanup destroy of all failed since.  ok: the datastore reported no
\* error for the last command it ran.  lost: the operation (get or all) whose
\* cleanup destroy removed a record of id that was live when it was removed,
\* no set of id having been applied since.
NoPast == [arg |-> NoSession, phase |-> "none", touched |-> FALSE]

NoHistory ==
  [ok |-> TRUE, ids |-> [id \in Ids |-> NoPast], cleared |-> FALSE,
   sweeping |-> FALSE, sweptAt |-> 0, lost |-> [id |-> "-", origin |-> "none"]]

Noting(h, ok) == [h EXCEPT !.ok = ok]

AfterSet(h, id, arg) ==
  [h EXCEPT !.ids[id] = [arg |-> arg, phase |-> "set", touched |-> FALSE],
            !.cleared = FALSE, !.sweeping = FALSE, !.sweptAt = 0,
            !.lost = IF h.lost.id = id THEN [id |-> "-", origin |-> "none"]
                     ELSE h.lost]

AfterTouch(h, id, applied) ==
  IF ~applied THEN h
  ELSE [h EXCEPT !.ids[id].touched = (h.ids[id].phase = "set"),
                 !.sweeping = FALSE, !.sweptAt = 0]

AfterRemove(h, id, origin) ==
  [h EXCEPT !.ids[id] =
     IF origin = "destroy" /\ h.ids[id].phase \in {"set", "destroyed"}
     THEN [arg |-> NoSession, phase |-> "destroyed", touched |-> FALSE]
     ELSE IF h.ids[id].phase = "set"
     THEN [arg |-> NoSession, phase |-> "purged", touched |-> FALSE]
     ELSE h.ids[id]]

\* a cleanup destroy of get or all is applied to the documents ds at now
AfterCleanup(h, id, origin, ds, now) ==
  IF /\ origin \in {"get", "all"}
     /\ Matching(ds, id) # {}
     /\ IsLive(ds[FirstMatch(ds, id)], now)
  THEN [h EXCEPT !.lost = [id |-> id, origin |-> origin]]
  ELSE h

AfterFailedRemove(h, origin) ==
  IF origin = "all" THEN [h EXCEPT !.sweeping = FALSE, !.sweptAt = 0] ELSE h

AfterClear(h) ==
  [h EXCEPT !.ids = [id \in Ids |->
                       IF h.ids[id].phase = "set" THEN NoPast ELSE h.ids[id]],
            !.cleared = TRUE]

AfterFind(h, now) == [h EXCEPT !.sweeping = TRUE, !.sweptAt = now]

\* ------------------------------------------------------------ operations

\* the safely serialised copy of the session that set stores: the cookie is
\* replaced by its toJSON() when it has one, a plain object of its data fields
SerializeCookie(c) ==
  IF c.present /\ c.toJSON
  THEN [toJSON |-> FALSE, present |-> TRUE, expires |-> c.expires]
  ELSE c

\* Variant: only the cookie is copied
SerializeCookieOnly(s) == [data |-> "null", cookie |-> SerializeCookie(s.cookie)]

Serialize(s) == [data |-> s.data, cookie |-> SerializeCookie(s.cookie)]

\* session && session.cookie && session.cookie.expires
HasCookieExpiry(s) == s # NoSession /\ s.cookie.present /\ Truthy(s.cookie.expires)

\* Variant: no default expiry, expiresAt left out without cookie expiry
SetExpirationCookieOnly(s, now, dflt) ==
  IF HasCookieExpiry(s) THEN NewDate(s.cookie.expires) ELSE NoDate

\* the expiration date set computes at the call
SetExpiration(s, now, dflt) ==
  IF HasCookieExpiry(s) THEN NewDate(s.cookie.expires) ELSE DateAt(now + dflt)

\* touchSetOp.expiresAt, absent when the cookie carries no expiry
TouchExpiration(s) ==
  IF HasCookieExpiry(s) THEN NewDate(s.cookie.expires) ELSE NoDate

\* an exception left a datastore callback uncaught: the process is gone
Crashed == thrown = "uncaught"

\* emit( 'error', err ) throws err when no listener is registered for it
EmitError(heard) == IF heard THEN "none" ELSE "uncaught"

MayCall ==
  pc = "ready" /\ ~Crashed /\ calls < MaxCalls /\ Len(queue) < MaxQueue

\* a store operation hands its command to the datastore, which buffers it
Issue(c) ==
  /\ MayCall
  /\ queue' = Append(queue, c)
  /\ calls' = calls + 1
  /\ cb' = NoCb
  /\ emits' = <<>>
  /\ thrown' = "none"
  /\ UNCHANGED <<pc, options, defaultExpiry, compaction, loadState, clock,
                 docs, given, history, listening>>

CallSet(id, s) ==
  Issue(Cmd("update", "set", id, Serialize(s),
            SetExpiration(s, clock, defaultExpiry), s))

\* set( id, session ) with session null or undefined: Object.keys( session )
\* throws a TypeError before anything is handed to the datastore
CallSetAbsent(id) ==
  /\ MayCall
  /\ calls' = calls + 1
  /\ cb' = NoCb
  /\ emits' = <<>>
  /\ thrown' = "TypeError"
  /\ UNCHANGED <<pc, options, defaultExpiry, compaction, loadState, clock,
                 docs, queue, given, history, listening>>

CallTouch(id, s) ==
  Issue(Cmd("update", "touch", id, NoSession, TouchExpiration(s), s))

CallGet(id) == Issue(Cmd("findOne", "get", id, NoSession, NoDate, NoSession))

CallAll == Issue(Cmd("find", "all", "-", NoSession, NoDate, NoSession))

CallLength == Issue(Cmd("find", "length", "-", NoSession, NoDate, NoSession))

CallDestroy(id) == Issue(DestroyCmd("destroy", id))

CallClear == Issue(Cmd("removeAll", "clear", "-", NoSession, NoDate, NoSession))

\* ------------------------------------------------- the datastore's steps

\* How a datastore operation may end: an in-memory datastore does no file
\* input or output and reports no error, a file-backed one may fail.
Outcomes == IF given.inMemoryOnly THEN {TRUE} ELSE BOOLEAN

\* Variant: a datastore that runs its commands without waiting for its load
RunsUnloaded(kind, origin) ==
  /\ pc = "ready"
  /\ ~Crashed
  /\ queue # <<>>
  /\ Head(queue).kind = kind
  /\ Head(queue).origin = origin

\* the datastore runs its oldest buffered command once it is loaded
Runs(kind, origin) ==
  /\ pc = "ready"
  /\ ~Crashed
  /\ loadState = "loaded"
  /\ queue # <<>>
  /\ Head(queue).kind = kind
  /\ Head(queue).origin = origin

Frame ==
  UNCHANGED <<pc, options, defaultExpiry, compaction, loadState, clock, calls,
              given, listening>>

\* set's update and its callback
ExecSet(ok) ==
  LET c == Head(queue) IN
  /\ Runs("update", "set")
  /\ docs' = IF ok THEN UpsertDoc(docs, c.id, c.session, c.expiresAt) ELSE docs
  /\ queue' = Tail(queue)
  /\ cb' = Cb("set", c.id, IF ok THEN NoErr ELSE BackingErr, NoVal)
  /\ emits' = <<>>
  /\ thrown' = "none"
  /\ history' = Noting(IF ok THEN AfterSet(history, c.id, c.arg) ELSE history, ok)
  /\ Frame

\* touch's update and its callback
ExecTouch(ok) ==
  LET c == Head(queue)
      numAffected == IF Matching(docs, c.id) = {} THEN 0 ELSE 1
  IN
  /\ Runs("update", "touch")
  /\ docs' = IF ok THEN TouchDoc(docs, c.id, c.expiresAt) ELSE docs
  /\ queue' = Tail(queue)
  /\ cb' = Cb("touch", c.id,
              IF ~ok THEN BackingErr
              ELSE IF numAffected = 0 THEN NoSessionErr(c.id) ELSE NoErr,
              NoVal)
  /\ emits' = <<>>
  /\ thrown' = "none"
  /\ history' = Noting(AfterTouch(history, c.id, ok /\ numAffected # 0), ok)
  /\ Frame

\* get's findOne and its callback
ExecGet(ok) ==
  LET c == Head(queue)
      found == FindOne(docs, c.id)
  IN
  /\ Runs("findOne", "get")
  /\ docs' = docs
  /\ IF ~ok
     THEN /\ queue' = Tail(queue)
          /\ cb' = Cb("get", c.id, BackingErr, NullVal)
     ELSE IF found # <<>> /\ IsLive(found[1], clock)
     THEN /\ queue' = Tail(queue)
          /\ cb' = Cb("get", c.id, NoErr, SessionVal(found[1].session))
     ELSE IF found # <<>>
     THEN /\ queue' = Append(Tail(queue), DestroyCmd("get", c.id))
          /\ cb' = NoCb
     ELSE /\ queue' = Tail(queue)
          /\ cb' = Cb("get", c.id, NoErr, NullVal)
  /\ emits' = <<>>
  /\ thrown' = "none"
  /\ history' = Noting(history, ok)
  /\ Frame

\* the find of all (or of length, which calls all) and its callback
ExecFind(origin, ok) ==
  /\ Runs("find", origin)
  /\ docs' = docs
  /\ queue' = Tail(queue) \o FindCleanup(docs, clock, ok)
  /\ cb' = IF origin = "all"
           THEN Cb("all", "-", IF ok THEN NoErr ELSE BackingErr,
                   IF ok THEN ListVal(AllResult(docs, clock)) ELSE NullVal)
           ELSE Cb("length", "-", IF ok THEN NoErr ELSE BackingErr,
                   NumVal(IF ok THEN LengthResult(docs, clock) ELSE 0))
  /\ emits' = <<>>
  /\ thrown' = "none"
  /\ history' = Noting(IF ok THEN AfterFind(history, clock) ELSE history, ok)
  /\ Frame

\* Variant: get's cleanup handing ( null, null ) to the callback whatever
\* destroy reported
RemoveCallbackSilent(origin, id, ok) ==
  CASE origin = "destroy" ->
         Cb("destroy", id, IF ok THEN NoErr ELSE BackingErr, NoVal)
    [] origin = "get" -> Cb("get", id, NoErr, NullVal)
    [] OTHER -> NoCb

\* Variant: get's cleanup dropping the callback
RemoveCallbackLost(origin, id, ok) ==
  CASE origin = "destroy" ->
         Cb("destroy", id, IF ok THEN NoErr ELSE BackingErr, NoVal)
    [] OTHER -> NoCb

\* the callback destroy's remove ends in: callback( err ) for the caller's
\* destroy, callback( destroyErr, null ) for get's cleanup, none for all's
RemoveCallback(origin, id, ok) ==
  CASE origin = "destroy" ->
         Cb("destroy", id, IF ok THEN NoErr ELSE BackingErr, NoVal)
    [] origin = "get" ->
         Cb("get", id, IF ok THEN NoErr ELSE BackingErr, NullVal)
    [] OTHER -> NoCb

\* the remove of destroy and its callback: that of the caller's destroy, of
\* get's cleanup or of all's cleanup
ExecRemove(origin, ok) ==
  LET c == Head(queue) IN
  /\ Runs("remove", origin)
  /\ docs' = IF ok THEN RemoveDoc(docs, c.id) ELSE docs
  /\ queue' = Tail(queue)
  /\ cb' = RemoveCallback(origin, c.id, ok)
  /\ emits' = IF origin = "all" /\ ~ok THEN <<"error">> ELSE <<>>
  /\ thrown' = IF origin = "all" /\ ~ok THEN EmitError(listening) ELSE "none"
  /\ history' = Noting(IF ok
                       THEN AfterCleanup(AfterRemove(history, c.id, origin),
                                         c.id, origin, docs, clock)
                       ELSE AfterFailedRemove(history, origin), ok)
  /\ Frame

\* clear's remove of every document and its callback
ExecClear(ok) ==
  /\ Runs("removeAll", "clear")
  /\ docs' = IF ok THEN ClearDocs(docs) ELSE docs
  /\ queue' = Tail(queue)
  /\ cb' = Cb("clear", "-", IF ok THEN NoErr ELSE BackingErr, NoVal)
  /\ emits' = <<>>
  /\ thrown' = "none"
  /\ history' = Noting(IF ok THEN AfterClear(history) ELSE history, ok)
  /\ Frame

\* the datastore finishes its initial load: options.onload( err ).  When the
\* load failed and emit( 'error', err ) throws, neither the 'disconnect' event
\* nor the call of onLoadFn that come after it is reached.
Load(ok) ==
  /\ pc = "ready"
  /\ ~Crashed
  /\ loadState = "loading"
  /\ loadState' = IF ok THEN "loaded" ELSE "failed"
  /\ emits' = IF ok THEN <<"connect">>
              ELSE IF listening THEN <<"error", "disconnect">>
              ELSE <<"error">>
  /\ thrown' = IF ok THEN "none" ELSE EmitError(listening)
  /\ cb' = IF ok \/ listening
           THEN Cb("onload", "-", IF ok THEN NoErr ELSE BackingErr, NoVal)
           ELSE NoCb
  /\ UNCHANGED <<pc, options, defaultExpiry, compaction, clock, docs, queue,
                 calls, given, history, listening>>

\* time passes
Tick ==
  /\ pc = "ready"
  /\ ~Crashed
  /\ clock < MaxClock
  /\ clock' = clock + 1
  /\ cb' = NoCb
  /\ emits' = <<>>
  /\ thrown' = "none"
  /\ UNCHANGED <<pc, options, defaultExpiry, compaction, loadState, docs,
                 queue, calls, given, history, listening>>

\* --------------------------------------------------------- specifications

\* A record written by the earlier revision of set, which stored the session
\* and no expiresAt: what a datastore file may hold when it is loaded.
LegacySession == [data |-> "y", cookie |-> NoCookie]

LegacyDocs == <<Doc("b", LegacySession, NoDate)>>

\* The stores the operations are checked on: a file-backed one with an expiry
\* of 1 ms whose file holds a legacy record, and an in-memory one with the
\* default expiry, which starts empty.
FileOptions == Option(FALSE, "sessions.db", Num(1), Undefined)

MemoryOptions == Option(TRUE, "", Undefined, Undefined)

InitialDocs(o) == IF o.inMemoryOnly THEN <<>> ELSE LegacyDocs

Idle ==
  /\ loadState = "loading"
  /\ clock = 0
  /\ queue = <<>>
  /\ cb = NoCb
  /\ emits = <<>>
  /\ calls = 0
  /\ history = NoHistory
  /\ thrown = "none"

\* the store new NeDBStore( o ) returns
Constructed(o) ==
  /\ pc = "ready"
  /\ given = o
  /\ options = OptionsAfter(o)
  /\ defaultExpiry = DefaultExpiryOf(o)
  /\ compaction = CompactionOf(o)
  /\ docs = InitialDocs(o)
  /\ Idle

Init == Constructed(FileOptions) /\ listening = TRUE

InitMemory == Constructed(MemoryOptions) /\ listening = TRUE

\* the file-backed store with no 'error' listener registered on it
InitUnheard == Constructed(FileOptions) /\ listening = FALSE

Next ==
  \/ \E ok \in Outcomes : Load(ok)
  \/ Tick
  \/ \E id \in Ids : \E s \in Payloads(id) : CallSet(id, s)
  \/ \E id \in Ids : CallSetAbsent(id)
  \/ \E id \in Ids : \E s \in Payloads(id) : CallTouch(id, s)
  \/ \E id \in Ids : CallGet(id)
  \/ \E id \in Ids : CallDestroy(id)
  \/ CallAll
  \/ CallLength
  \/ CallClear
  \/ \E ok \in Outcomes : ExecSet(ok)
  \/ \E ok \in Outcomes : ExecTouch(ok)
  \/ \E ok \in Outcomes : ExecGet(ok)
  \/ \E ok \in Outcomes, origin \in {"all", "length"} : ExecFind(origin, ok)
  \/ \E ok \in Outcomes, origin \in {"destroy", "get", "all"} : ExecRemove(origin, ok)
  \/ \E ok \in Outcomes : ExecClear(ok)

Spec == Init /\ [][Next]_vars

SpecMemory == InitMemory /\ [][Next]_vars

SpecUnheard == InitUnheard /\ [][Next]_vars

\* A record an earlier run of the program left in the file: a session set
\* without cookie expiry whose expiresAt has passed when the file is loaded.
ExpiredSession ==
  [data |-> "x",
   cookie |-> [toJSON |-> FALSE, present |-> TRUE, expires |-> NoDate]]

ExpiredDocs == <<Doc("a", ExpiredSession, DateAt(0))>>

\* the file-backed store whose file holds the expired record
InitExpired ==
  /\ pc = "ready"
  /\ given = FileOptions
  /\ options = OptionsAfter(FileOptions)
  /\ defaultExpiry = DefaultExpiryOf(FileOptions)
  /\ compaction = CompactionOf(FileOptions)
  /\ docs = ExpiredDocs
  /\ listening = TRUE
  /\ Idle

SpecExpired == InitExpired /\ [][Next]_vars

\* the datastore finishes its load or runs the oldest command it holds
DatastoreStep ==
  \/ \E ok \in Outcomes : Load(ok)
  \/ \E ok \in Outcomes : ExecSet(ok)
  \/ \E ok \in Outcomes : ExecTouch(ok)
  \/ \E ok \in Outcomes : ExecGet(ok)
  \/ \E ok \in Outcomes, origin \in {"all", "length"} : ExecFind(origin, ok)
  \/ \E ok \in Outcomes, origin \in {"destroy", "get", "all"} : ExecRemove(origin, ok)
  \/ \E ok \in Outcomes : ExecClear(ok)

\* The file-backed store whose datastore completes what it is given: the
\* load and every command end, with or without error.
SpecFair == Init /\ [][Next]_vars /\ WF_vars(DatastoreStep)

\* In-memory stores constructed with different defaultExpiry options: none,
\* 2 ms and 0.5 ms.
ExpiryOptions == {Undefined, Num(2), JsValue("finite", 0, TRUE)}

InitExpiry ==
  /\ \E d \in ExpiryOptions : Constructed(Option(TRUE, "", d, Undefined))
  /\ listening = TRUE

SpecExpiry == InitExpiry /\ [][Next]_vars

\* The constructor on its own: every combination of the options below.
IntervalValues ==
  {Undefined, Null, JsValue("nan", 0, FALSE), JsValue("posinf", 0, FALSE),
   JsValue("neginf", 0, FALSE), JsValue("huge", 2, FALSE),
   JsValue("tiny", 5, FALSE), JsValue("string", 6000, FALSE)}
  \cup {JsValue("finite", n, f) :
          n \in {-1, 0, 1000, MIN_COMPACT - 1, MIN_COMPACT, MIN_COMPACT + 1,
                 ONE_DAY - 1, ONE_DAY, ONE_DAY + 1, 200000000},
          f \in BOOLEAN}

DefaultExpiryValues ==
  {Undefined, Null, Num(-1), Num(0), Num(1), Num(2), JsValue("finite", 0, TRUE),
   JsValue("finite", 2, TRUE), JsValue("nan", 0, FALSE),
   JsValue("posinf", 0, FALSE), JsValue("string", 1000, FALSE)}

AllOptions ==
  {Option(m, f, d, i) : m \in BOOLEAN, f \in {"", "sessions.db"},
                        d \in DefaultExpiryValues, i \in IntervalValues}

InitCtor ==
  /\ pc = "new"
  /\ options \in AllOptions
  /\ given = options
  /\ defaultExpiry = 0
  /\ compaction = NotConstructed
  /\ docs = <<>>
  /\ listening \in BOOLEAN
  /\ Idle

NextCtor ==
  \/ NewStore
  \/ \E ok \in Outcomes : Load(ok)

SpecCtor == InitCtor /\ [][NextCtor]_vars

\* ------------------------------------------------------------ properties

\* liveness as the data model states it: expiresAt is absent, or the current
\* time is strictly before it
SpecLive(doc, now) ==
  \/ doc.expiresAt.kind = "absent"
  \/ doc.expiresAt.kind = "date" /\ now < doc.expiresAt.t

LiveDocs(ds, now) == SelectSeq(ds, LAMBDA d : SpecLive(d, now))

StaleDocs(ds, now) == SelectSeq(ds, LAMBDA d : ~SpecLive(d, now))

HasDoc(ds, id) == \E i \in 1..Len(ds) : ds[i]._id = id

\* two sessions hold the same data: the same keys with the same values
EqualData(a, b) ==
  /\ a.data = b.data
  /\ a.cookie.present = b.cookie.present
  /\ a.cookie.expires = b.cookie.expires

\* this step is the datastore running its oldest command, one of (kind, origin)
Executes(kind, origin) ==
  /\ Runs(kind, origin)
  /\ calls' = calls
  /\ clock' = clock
  /\ queue' # queue

Past(id) == history.ids[id]

\* the record of id is as a set with a cookie expiry at a date wrote it
SetWithExpiry(id) ==
  /\ Past(id).phase = "set"
  /\ HasCookieExpiry(Past(id).arg)
  /\ Past(id).arg.cookie.expires.kind = "date"

ExpiryOf(id) == Past(id).arg.cookie.expires.t

\* get's findOne runs for id and reports no error
GetEvaluates(id) ==
  /\ Executes("findOne", "get")
  /\ Head(queue).id = id
  /\ cb'.err # BackingErr

Delivers(c, op, id, s) ==
  /\ c.op = op
  /\ c.id = id
  /\ c.err = NoErr
  /\ c.val.kind = "session"
  /\ EqualData(c.val.sessions[1], s)

\* C1 as stated: after set(id, s) with s.cookie.expires = t, a get(id)
\* evaluated strictly before t, with no set, destroy or clear of id applied in
\* between, delivers (null, s).
C1_GetBeforeExpiry_AsStated ==
  [][\A id \in Ids :
       (GetEvaluates(id) /\ SetWithExpiry(id) /\ clock < ExpiryOf(id))
         => Delivers(cb', "get", id, Past(id).arg)]_vars

\* C1 as amended: after set(id, s) with s.cookie.expires = t, a get(id)
\* evaluated strictly before t, with no set, touch, destroy or clear of id
\* applied in between, delivers (null, s), the stored payload unchanged.
C1_GetBeforeExpiry ==
  [][\A id \in Ids :
       (GetEvaluates(id) /\ SetWithExpiry(id) /\ ~Past(id).touched
          /\ clock < ExpiryOf(id))
         => Delivers(cb', "get", id, Past(id).arg)]_vars

\* a get delivered the payload of a set before its expiry
C1_Witness ==
  /\ cb.op = "get"
  /\ SetWithExpiry(cb.id)
  /\ ~Past(cb.id).touched
  /\ clock < ExpiryOf(cb.id)
  /\ Delivers(cb, "get", cb.id, Past(cb.id).arg)
  /\ Past(cb.id).arg.cookie.toJSON

\* every payload of the list is the session of a document of the collection
FromDocs(list, ds) ==
  /\ Len(list) <= Len(ds)
  /\ \A i \in 1..Len(list) : \E j \in 1..Len(ds) : ds[j].session = list[i]

\* C2: for a record written by set with cookie expiry t, a get(id) evaluated
\* at or after t issues a destroy of the record and delivers nothing itself;
\* when that destroy succeeds, get delivers (null, null) and the record is
\* absent from the collection; a record purged this way stays absent and the
\* list of a following all is made of the records present only.
C2_GetAtOrAfterExpiry ==
  [][
     /\ \A id \in Ids :
          ((GetEvaluates(id) /\ SetWithExpiry(id) /\ ~Past(id).touched
              /\ HasDoc(docs, id) /\ clock >= ExpiryOf(id))
            => (/\ cb' = NoCb
                /\ queue' = Append(Tail(queue), DestroyCmd("get", id))
                /\ docs' = docs))
     /\ ((Executes("remove", "get") /\ cb'.err = NoErr)
            => (/\ cb' = Cb("get", Head(queue).id, NoErr, NullVal)
                /\ ~HasDoc(docs', Head(queue).id)))
     /\ \A id \in Ids : (history'.ids[id].phase = "purged" => ~HasDoc(docs', id))
     /\ ((cb'.op = "all" /\ cb'.err = NoErr)
            => FromDocs(cb'.val.sessions, docs'))
  ]_vars

\* a get of an expired record delivered (null, null) after purging it
C2_Witness ==
  /\ cb = Cb("get", cb.id, NoErr, NullVal)
  /\ Past(cb.id).phase = "purged"
  /\ ~HasDoc(docs, cb.id)
  /\ clock >= 1

\* C3: a payload delivered by get, included in the list of all or counted by
\* length belongs to a record that is live when the read evaluates it: one
\* whose expiresAt is absent or strictly after the current time.
C3_ReadsDeliverLiveOnly ==
  /\ (cb.op = "get" /\ cb.val.kind = "session")
       => \E j \in 1..Len(docs) :
            /\ docs[j]._id = cb.id
            /\ docs[j].session = cb.val.sessions[1]
            /\ SpecLive(docs[j], clock)
  /\ (cb.op = "all" /\ cb.val.kind = "list")
       => FromDocs(cb.val.sessions, LiveDocs(docs, clock))
  /\ (cb.op = "length" /\ cb.err = NoErr)
       => cb.val.n <= Len(LiveDocs(docs, clock))

\* all left out a record whose expiresAt is the current time and kept one
\* without expiresAt
C3_Witness ==
  /\ cb.op = "all"
  /\ cb.val.kind = "list"
  /\ \E j \in 1..Len(docs) : docs[j].expiresAt = DateAt(clock)
  /\ \E j \in 1..Len(docs) :
       docs[j].expiresAt = NoDate /\ cb.val.sessions = <<docs[j].session>>

\* C4: length delivers (null, n), n being the number of records live at the
\* evaluation, the size of the list all delivers in the same state; stale
\* records not yet purged are not counted.
C4_LengthCountsLive ==
  (cb.op = "length" /\ cb.err = NoErr)
    => /\ cb.val = NumVal(Len(LiveDocs(docs, clock)))
       /\ cb.val.n = Len(AllResult(docs, clock))

\* length counted one live record while a stale one was still stored
C4_Witness ==
  /\ cb.op = "length"
  /\ cb.err = NoErr
  /\ cb.val.n = 1
  /\ Len(docs) = 2
  /\ Len(StaleDocs(docs, clock)) = 1

\* no cleanup destroy of all is waiting in the datastore's queue
NoCleanupPending(q) ==
  \A i \in 1..Len(q) : ~(q[i].kind = "remove" /\ q[i].origin = "all")

\* C5: all delivers (null, L), L being the payloads of the records live at
\* the evaluation in the order find returned them, and issues one destroy per
\* stale record found; once these destroys are done, no set or touch having
\* been applied meanwhile, the collection holds none of the records that were
\* stale and a length evaluated at that time yields the number of records.
C5_AllFiltersAndPurges ==
  [][
     /\ ((Executes("find", "all") /\ cb'.err = NoErr)
           => (/\ cb' = Cb("all", "-", NoErr,
                           ListVal(SessionsOf(LiveDocs(docs, clock))))
               /\ queue' = Tail(queue) \o
                    [i \in 1..Len(StaleDocs(docs, clock)) |->
                       DestroyCmd("all", StaleDocs(docs, clock)[i]._id)]
               /\ docs' = docs))
     /\ ((history'.sweeping /\ NoCleanupPending(queue'))
           => (/\ StaleDocs(docs', history'.sweptAt) = <<>>
               /\ (cb'.op = "length" /\ cb'.err = NoErr
                     /\ clock' = history'.sweptAt)
                    => cb'.val = NumVal(Len(docs'))))
  ]_vars

\* all found a stale record beside a live one, its destroy was applied, and
\* the length that followed counted the one record left
C5_Witness ==
  /\ history.sweeping
  /\ NoCleanupPending(queue)
  /\ \E id \in Ids : Past(id).phase = "purged"
  /\ cb = Cb("length", "-", NoErr, NumVal(1))
  /\ Len(docs) = 1
  /\ calls = 3

\* C6: touch(id, s) on an id without a record delivers the error
\* 'No Session exists with ID <id>' and leaves the collection as it was.
C6_TouchMissing ==
  [][\A id \in Ids :
       (Executes("update", "touch") /\ Head(queue).id = id
          /\ ~HasDoc(docs, id) /\ cb'.err # BackingErr)
         => (/\ cb' = Cb("touch", id, NoSessionErr(id), NoVal)
             /\ docs' = docs)]_vars

\* a touch of an id without a record reported the error
C6_Witness ==
  /\ cb.op = "touch"
  /\ cb.err = NoSessionErr(cb.id)
  /\ ~HasDoc(docs, cb.id)

\* C7: once set(id, s) and then destroy(id) were applied, and no set of id
\* since, the record is absent and a get(id) delivers (null, null), whatever
\* was done to the other ids.
C7_SetDestroyGet ==
  [][\A id \in Ids :
       /\ (history'.ids[id].phase = "destroyed" => ~HasDoc(docs', id))
       /\ ((GetEvaluates(id) /\ Past(id).phase = "destroyed")
             => cb' = Cb("get", id, NoErr, NullVal))]_vars

\* a get after set and destroy delivered (null, null) while the other
\* session is stored
C7_Witness ==
  /\ cb = Cb("get", cb.id, NoErr, NullVal)
  /\ Past(cb.id).phase = "destroyed"
  /\ \E id \in Ids : id # cb.id /\ HasDoc(docs, id)

\* C8: after clear was applied, and no set since, the collection is empty,
\* length delivers (null, 0) and all delivers the empty list.
C8_ClearEmpties ==
  history.cleared
    => /\ docs = <<>>
       /\ (cb.op = "length" /\ cb.err = NoErr) => cb.val = NumVal(0)
       /\ (cb.op = "all" /\ cb.err = NoErr) => cb.val = ListVal(<<>>)

\* the caller issued a clear and a length, nothing else: the clear removed
\* the record the file held and length delivered 0
C8_Witness ==
  /\ history.cleared
  /\ cb = Cb("length", "-", NoErr, NumVal(0))
  /\ calls = 2

\* a number as a property states it: an integer n, or a number strictly
\* between n and the next integer away from zero ("between")
Exactly(n) == [n |-> n, is |-> "integer"]

\* max(5000, min(v, 86400000)) for a number v
ClampedValue(v) ==
  CASE v.cls = "neginf" -> Exactly(MIN_COMPACT)
    [] v.cls = "tiny" -> Exactly(MIN_COMPACT)
    [] v.cls \in {"posinf", "huge"} -> Exactly(ONE_DAY)
    [] v.cls = "finite" /\ v.n < MIN_COMPACT -> Exactly(MIN_COMPACT)
    [] v.cls = "finite" /\ v.n >= ONE_DAY -> Exactly(ONE_DAY)
    [] v.cls = "finite" /\ v.frac -> [n |-> v.n, is |-> "between"]
    [] OTHER -> Exactly(v.n)

FileBacked == pc = "ready" /\ ~given.inMemoryOnly

\* C9 as stated: for every numeric autoCompactInterval v of a file-backed
\* configuration the interval handed to setAutocompactionInterval is
\* max(5000, min(v, 86400000)); it is 86400000 when the option is not supplied.
C9_IntervalClamped_AsStated ==
  FileBacked
    => /\ IsNumeric(given.autoCompactInterval)
            => /\ compaction.scheduled
               /\ Exactly(compaction.interval) = ClampedValue(given.autoCompactInterval)
       /\ given.autoCompactInterval = Undefined
            => compaction = [scheduled |-> TRUE, interval |-> ONE_DAY]

\* an integer below 1e21 in magnitude
IsInteger(v) == v.cls = "finite" /\ ~v.frac

\* C9 as amended: for every integer autoCompactInterval v (of a magnitude
\* below 1e21) of a file-backed configuration the interval handed to
\* setAutocompactionInterval is max(5000, min(v, 86400000)); it is 86400000
\* when the option is not supplied.
C9_IntervalClamped ==
  FileBacked
    => /\ IsInteger(given.autoCompactInterval)
            => /\ compaction.scheduled
               /\ Exactly(compaction.interval) = ClampedValue(given.autoCompactInterval)
       /\ given.autoCompactInterval = Undefined
            => compaction = [scheduled |-> TRUE, interval |-> ONE_DAY]

\* an interval of 1000 was raised to 5000
C9_Witness ==
  /\ FileBacked
  /\ given.autoCompactInterval = Num(1000)
  /\ compaction = [scheduled |-> TRUE, interval |-> MIN_COMPACT]

\* C10: the constructor schedules compaction exactly when inMemoryOnly is
\* false and autoCompactInterval is not null, whatever the other options.
C10_CompactionScheduledIff ==
  pc = "ready"
    => (compaction.scheduled
          <=> (~given.inMemoryOnly /\ given.autoCompactInterval # Null))

\* a file-backed store with a file name and a null interval: not scheduled
C10_Witness ==
  /\ pc = "ready"
  /\ ~given.inMemoryOnly
  /\ given.filename # ""
  /\ given.autoCompactInterval = Null
  /\ ~compaction.scheduled

\* this step is a call of set for id, handing its update to the datastore
IssuesSet(id) ==
  /\ calls' = calls + 1
  /\ queue' # queue
  /\ queue'[Len(queue')].origin = "set"
  /\ queue'[Len(queue')].id = id

\* the command set issued in this step
Issued == queue'[Len(queue')]

\* the datastore applies set's update for id in this step
AppliesSet(id) ==
  /\ Executes("update", "set")
  /\ Head(queue).id = id
  /\ history'.ok

\* the record of id, when there is one
Rec(ds, id) == ds[FirstMatch(ds, id)]

\* defaultExpiry as stated: the option when it is a positive finite number,
\* two weeks otherwise
StatedExpiry(v) ==
  IF ~PositiveFinite(v) THEN Exactly(TWO_WEEKS)
  ELSE IF v.cls = "finite" /\ ~v.frac THEN Exactly(v.n)
  ELSE [n |-> v.n, is |-> "between"]

\* the record of id is as a set without cookie expiry wrote it
SetWithoutExpiry(id) ==
  /\ Past(id).phase = "set"
  /\ ~HasCookieExpiry(Past(id).arg)
  /\ ~Past(id).touched

\* what C11 states of a store whose defaultExpiry option satisfies accepted
ExpiryFromDefault(accepted(_)) ==
  \A id \in Ids :
    /\ (IssuesSet(id) /\ ~HasCookieExpiry(Issued.arg)
           /\ accepted(given.defaultExpiry))
          => (/\ Issued.expiresAt.kind = "date"
              /\ Exactly(Issued.expiresAt.t - clock)
                   = StatedExpiry(given.defaultExpiry))
    /\ (AppliesSet(id) /\ ~HasCookieExpiry(Head(queue).arg))
          => (/\ HasDoc(docs', id)
              /\ Rec(docs', id).expiresAt = Head(queue).expiresAt)
    /\ (GetEvaluates(id) /\ SetWithoutExpiry(id) /\ HasDoc(docs, id)
           /\ Before(clock, Rec(docs, id).expiresAt))
          => Delivers(cb', "get", id, Past(id).arg)

AnyOption(v) == TRUE

\* not a positive finite number, or a positive integer below 1e21
IntegerOrDefault(v) == ~PositiveFinite(v) \/ IsInteger(v)

CoercibleExpiry(s) == s.cookie.present /\ s.cookie.expires.kind = "date"

\* C12: set computes expiresAt from session.cookie.expires only when that is
\* present and coercible to a timestamp; when it is absent, or present and not
\* coercible, expiresAt is the clock at the call plus defaultExpiry, so that a
\* session written with a non-coercible cookie expiry is live for a get
\* evaluated at the time of the set.
C12_ExpiryCoercion ==
  [][\A id \in Ids :
       /\ IssuesSet(id)
            => Issued.expiresAt =
                 IF CoercibleExpiry(Issued.arg)
                 THEN DateAt(Issued.arg.cookie.expires.t)
                 ELSE DateAt(clock + defaultExpiry)
       /\ (GetEvaluates(id) /\ Past(id).phase = "set" /\ ~Past(id).touched
              /\ Past(id).arg.cookie.expires.kind = "invalid"
              /\ clock = 0 /\ defaultExpiry > 0)
            => Delivers(cb', "get", id, Past(id).arg)]_vars
\* the datastore applies touch's update for id, which has a record
AppliesTouch(id) ==
  /\ Executes("update", "touch")
  /\ Head(queue).id = id
  /\ HasDoc(docs, id)
  /\ history'.ok

\* the records other than that of id are what and where they were
OthersKept(id) ==
  /\ Len(docs') = Len(docs)
  /\ \A i \in 1..Len(docs) : docs[i]._id # id => docs'[i] = docs[i]

\* C13: touch(id, s) on an existing record leaves the stored session as it
\* was; it sets expiresAt to s.cookie.expires when s carries a cookie expiry
\* and leaves expiresAt as it was when it does not; no other record changes.
C13_TouchFrame ==
  [][\A id \in Ids :
       AppliesTouch(id)
         => (/\ cb' = Cb("touch", id, NoErr, NoVal)
             /\ OthersKept(id)
             /\ Matching(docs', id) = Matching(docs, id)
             /\ Rec(docs', id).session = Rec(docs, id).session
             /\ CoercibleExpiry(Head(queue).arg)
                  => Rec(docs', id).expiresAt
                       = DateAt(Head(queue).arg.cookie.expires.t)
             /\ ~HasCookieExpiry(Head(queue).arg)
                  => Rec(docs', id).expiresAt = Rec(docs, id).expiresAt)]_vars

\* a touch of session "b", which is touched without cookie expiry, was applied
\* to its record, which expires at a date, the other record being stored
\* beside it
C13_Witness ==
  /\ cb = Cb("touch", "b", NoErr, NoVal)
  /\ HasDoc(docs, "b")
  /\ Past("b").touched
  /\ Rec(docs, "b").expiresAt.kind = "date"
  /\ Rec(docs, "b").session = Serialize(Past("b").arg)
  /\ Len(docs) = 2
\* the datastore runs the oldest command, one of (kind, origin), and reports
\* an error for it
Fails(kind, origin) == Executes(kind, origin) /\ ~history'.ok

\* C14: when get's findOne or all's find reports an error, the callback of
\* the operation receives that error with a null result, no destroy is
\* issued, no record changes and the command is not issued again.
C14_ReadErrors ==
  [][
     /\ \A id \in Ids :
          (Fails("findOne", "get") /\ Head(queue).id = id)
            => (/\ cb' = Cb("get", id, BackingErr, NullVal)
                /\ queue' = Tail(queue)
                /\ docs' = docs
                /\ emits' = <<>>)
     /\ Fails("find", "all")
          => (/\ cb' = Cb("all", "-", BackingErr, NullVal)
              /\ queue' = Tail(queue)
              /\ docs' = docs
              /\ emits' = <<>>)
  ]_vars

\* the find of all failed while a stale record was stored: all delivered the
\* error and nothing is left in the queue
C14_Witness ==
  /\ cb = Cb("all", "-", BackingErr, NullVal)
  /\ ~history.ok
  /\ Len(StaleDocs(docs, clock)) >= 1
  /\ queue = <<>>
\* C15: when the cleanup destroy get issued for a stale record fails, get's
\* callback receives (the destroy error, null); when a cleanup destroy issued
\* by all fails, the error is emitted as an 'error' event and reaches no
\* callback: all's callback is invoked by its find only, with (null, the live
\* payloads) when the find succeeded.
C15_CleanupErrors ==
  [][
     /\ \A id \in Ids :
          (Fails("remove", "get") /\ Head(queue).id = id)
            => (/\ cb' = Cb("get", id, BackingErr, NullVal)
                /\ emits' = <<>>
                /\ docs' = docs)
     /\ Fails("remove", "all")
          => (/\ emits' = <<"error">>
              /\ cb' = NoCb
              /\ docs' = docs)
     /\ cb'.op = "all" => Executes("find", "all")
     /\ (Executes("find", "all") /\ history'.ok)
          => cb' = Cb("all", "-", NoErr, ListVal(SessionsOf(LiveDocs(docs, clock))))
  ]_vars

\* a cleanup destroy of all failed: the error was emitted, no callback was
\* invoked and the stale record is still stored
C15_Witness ==
  /\ loadState = "loaded"
  /\ emits = <<"error">>
  /\ ~history.ok
  /\ cb = NoCb
  /\ Len(StaleDocs(docs, clock)) >= 1
\* C16: no failure is fatal: whatever the input (a set with an absent session
\* included) and whatever fails (the load, a datastore command, a cleanup
\* destroy of all), no step of the store raises an exception, with or
\* without an 'error' listener.
C16_NothingThrown == thrown = "none"
\* C17: the datastore's initial load completes once, and when it does: on
\* success the store emits 'connect' and nothing else; on failure it emits
\* 'error' and then 'disconnect'; in both cases the onload callback is
\* invoked after the events with the load error, or none, and never again.
C17_LoadSignals ==
  [][
     /\ (loadState = "loading" /\ loadState' = "loaded")
          => (/\ emits' = <<"connect">>
              /\ cb' = Cb("onload", "-", NoErr, NoVal))
     /\ (loadState = "loading" /\ loadState' = "failed")
          => (/\ emits' = <<"error", "disconnect">>
              /\ cb' = Cb("onload", "-", BackingErr, NoVal))
     /\ loadState # "loading"
          => (/\ loadState' = loadState
              /\ cb'.op # "onload"
              /\ \A i \in 1..Len(emits') :
                   emits'[i] \notin {"connect", "disconnect"})
  ]_vars
\* no two records have the same id
UniqueIds(ds) == \A id \in Ids : Cardinality(Matching(ds, id)) <= 1

\* C18: the collection holds at most one record per id at all times, and set
\* is a full-replace upsert: once set(id, s) is applied there is exactly one
\* record of id, its session is s and nothing else, and its expiresAt is the
\* one computed from s at the call (the cookie's date, or the clock plus
\* defaultExpiry when the cookie carries none), whether or not id had a
\* record before.
C18_SetReplaces ==
  /\ []UniqueIds(docs)
  /\ [][\A id \in Ids :
          /\ AppliesSet(id)
               => (/\ Cardinality(Matching(docs', id)) = 1
                   /\ EqualData(Rec(docs', id).session, Head(queue).arg)
                   /\ Rec(docs', id).expiresAt = Head(queue).expiresAt
                   /\ cb' = Cb("set", id, NoErr, NoVal))
          /\ (IssuesSet(id) /\ CoercibleExpiry(Issued.arg))
               => Issued.expiresAt = DateAt(Issued.arg.cookie.expires.t)
          /\ (IssuesSet(id) /\ ~HasCookieExpiry(Issued.arg))
               => Issued.expiresAt = DateAt(clock + defaultExpiry)
       ]_vars

\* the only call made is a set of "b", which the file held without expiresAt:
\* its one record now has the expiresAt of the set
C18_Witness ==
  /\ cb = Cb("set", "b", NoErr, NoVal)
  /\ calls = 1
  /\ docs = <<Doc("b", Past("b").arg, DateAt(defaultExpiry))>>
\* the datastore runs a command of set, touch or the caller's destroy for id
WritesTo(id) ==
  /\ \/ Executes("update", "set")
     \/ Executes("update", "touch")
     \/ Executes("remove", "destroy")
  /\ Head(queue).id = id

\* C19: set(id, ...), touch(id, ...) and destroy(id) change at most the one
\* record of id and leave the records of the other ids as they were; a
\* destroy of an id without record completes without error and changes
\* nothing; a get of an id whose record is live or missing changes no record
\* and issues no destroy.
C19_OneRecordOnly ==
  [][\A id \in Ids :
       /\ WritesTo(id)
            => (/\ \A other \in Ids \ {id} :
                     FindOne(docs', other) = FindOne(docs, other)
                /\ Len(docs') \in {Len(docs) - 1, Len(docs), Len(docs) + 1})
       /\ (Executes("remove", "destroy") /\ Head(queue).id = id
              /\ ~HasDoc(docs, id) /\ history'.ok)
            => (/\ cb' = Cb("destroy", id, NoErr, NoVal)
                /\ docs' = docs)
       /\ (Executes("findOne", "get") /\ Head(queue).id = id
              /\ (HasDoc(docs, id) => SpecLive(Rec(docs, id), clock)))
            => (/\ docs' = docs
                /\ queue' = Tail(queue))
     ]_vars

\* a destroy of "a", which never had a record, completed without error
\* beside the record of "b"
C19_Witness ==
  /\ cb = Cb("destroy", "a", NoErr, NoVal)
  /\ Past("a").phase = "none"
  /\ ~HasDoc(docs, "a")
  /\ HasDoc(docs, "b")
\* q with its newest n commands left out
Older(q, n) == SubSeq(q, 1, Len(q) - n)

\* C20: before the datastore's initial load has completed no command of set,
\* get, touch, destroy, all, length or clear takes effect and none of their
\* callbacks is invoked: the commands are held, each behind those issued
\* before it; the datastore runs the oldest command held, and the callback
\* invoked is that of this command.
C20_HeldUntilLoaded ==
  [][
     /\ loadState # "loaded"
          => (/\ docs' = docs
              /\ cb'.op \in {"none", "onload"}
              /\ queue' = queue \/ (queue' # <<>> /\ Older(queue', 1) = queue))
     /\ (calls' = calls + 1 /\ queue' # queue)
          => (queue' # <<>> /\ Older(queue', 1) = queue)
     /\ (calls' = calls /\ queue' # queue)
          => (/\ loadState = "loaded"
              /\ queue # <<>>
              /\ Len(queue') >= Len(queue) - 1
              /\ SubSeq(queue', 1, Len(queue) - 1) = Tail(queue)
              /\ cb'.op \in {"none", Head(queue).origin})
     /\ docs' # docs => (calls' = calls /\ queue' # queue)
  ]_vars

\* the load completed with a set and a get held, in the order of their
\* calls, and nothing of them applied
C20_Witness ==
  /\ loadState = "loaded"
  /\ cb = Cb("onload", "-", NoErr, NoVal)
  /\ calls = 2
  /\ Len(queue) = 2
  /\ queue[1].origin = "set"
  /\ queue[2].origin = "get"
  /\ docs = LegacyDocs
Operations == {"set", "touch", "get", "all", "length", "destroy", "clear"}

RECURSIVE Pending(_, _)
\* the calls of op whose callback is outstanding among the commands q: every
\* command of op but the cleanup destroys of all, whose callback was invoked
\* by the find
Pending(q, op) ==
  IF q = <<>> THEN 0
  ELSE (IF Head(q).origin = op /\ ~(op = "all" /\ Head(q).kind = "remove")
        THEN 1 ELSE 0) + Pending(Tail(q), op)

AppliesCleanup(origin, id) ==
  /\ Executes("remove", origin)
  /\ Head(queue).id = id
  /\ history'.ok

\* C22: the cleanup destroy all issued for a record it found stale removes
\* whatever record of that id is stored when it runs, a record a set wrote
\* after the find included, and a get(id) that follows then delivers
\* (null, null).
C22_AllCleanupRace ==
  [][\A id \in Ids :
       /\ AppliesCleanup("all", id) => ~HasDoc(docs', id)
       /\ (GetEvaluates(id) /\ history.lost = [id |-> id, origin |-> "all"])
            => (/\ ~HasDoc(docs, id)
                /\ cb' = Cb("get", id, NoErr, NullVal))
     ]_vars

\* all found the record of "a" stale, a set of "a" was applied behind the
\* find, the cleanup destroy removed the live record the set wrote, and the
\* get that followed delivered (null, null)
C22_Witness ==
  /\ history.lost = [id |-> "a", origin |-> "all"]
  /\ cb = Cb("get", "a", NoErr, NullVal)
  /\ history.ok
  /\ ~HasDoc(docs, "a")
\* C23: whatever set or touch of the same id is interleaved with a get, the
\* destroy get issues after finding a record stale never removes a record
\* that is live when it is removed.
C23_GetCleanupSafe ==
  [][\A id \in Ids :
       (AppliesCleanup("get", id) /\ HasDoc(docs, id))
         => ~SpecLive(Rec(docs, id), clock)]_vars
\* C24: in a store that starts empty every record has a session and an
\* expiresAt, whatever was called: no operation creates or leaves a record
\* without expiresAt.
C24_AlwaysExpiring ==
  \A i \in 1..Len(docs) :
    /\ docs[i].session # NoSession
    /\ Truthy(docs[i].expiresAt)

\* session "b", written without cookie and touched without cookie expiry,
\* is stored with the expiresAt of its set
C24_Witness ==
  /\ cb = Cb("touch", "b", NoErr, NoVal)
  /\ Past("b").phase = "set"
  /\ Past("b").touched
  /\ HasDoc(docs, "b")
  /\ Rec(docs, "b").expiresAt.kind = "date"
  /\ Rec(docs, "b").expiresAt.t >= TWO_WEEKS
\* C25: touch does not test liveness: a touch(id, s) applied to a record that
\* is stale and still stored completes without error and leaves its session
\* as it was; when s carries a cookie expiry later than the current time the
\* record is live again, and a get(id) evaluated on a live record delivers
\* the session stored and not (null, null).
C25_TouchRevives ==
  [][\A id \in Ids :
       /\ (AppliesTouch(id) /\ ~SpecLive(Rec(docs, id), clock))
            => (/\ cb' = Cb("touch", id, NoErr, NoVal)
                /\ Rec(docs', id).session = Rec(docs, id).session
                /\ (CoercibleExpiry(Head(queue).arg)
                      /\ clock < Head(queue).arg.cookie.expires.t)
                     => SpecLive(Rec(docs', id), clock))
       /\ (GetEvaluates(id) /\ HasDoc(docs, id)
              /\ SpecLive(Rec(docs, id), clock))
            => cb' = Cb("get", id, NoErr, SessionVal(Rec(docs, id).session))
     ]_vars

\* the expired record the file held, never set in this run, has a later
\* expiresAt, which only a touch can have given it, and a get delivered its
\* session
C25_Witness ==
  /\ cb = Cb("get", "a", NoErr, SessionVal(ExpiredSession))
  /\ Past("a").phase = "none"
  /\ docs = <<Doc("a", ExpiredSession, DateAt(1))>>
  /\ clock = 0
====
